---- MODULE Spec2Model ----
(***************************************************************************)
(* A model of yext/teamcity: the locate package (locator construction),    *)
(* the Client's request path (client.go) and the derived helpers.          *)
(* Go strings are TLA+ strings; s[i:j] is SubSeq(s, i+1, j).               *)
(***************************************************************************)
EXTENDS Integers, Sequences, FiniteSets, TLC

VARIABLES
    pool,       \* locate: the Locator values the caller holds, in order of construction
    last,       \* locate: the last constructor call: its name, arguments and return
    aborted,    \* locate: TRUE once a constructor call panicked (the caller is gone)
    client,     \* teamcity: the Client built by NewClient
    calls,      \* teamcity: per goroutine, the client operation it is in
    agg,        \* teamcity: the change-aggregation helper's call
    props,      \* teamcity: the caller of PropertyFromName: its list and its last lookup
    times,      \* teamcity: a Time value and the last (un)marshalling of it
    trigs       \* teamcity: a Trigger value and the last (un)marshalling of it

locateVars == <<pool, last, aborted>>
clientVars == <<client, calls>>
helperVars == <<agg>>
valueVars == <<props, times, trigs>>
vars == <<pool, last, aborted, client, calls, agg, props, times, trigs>>

(***************************************************************************)
(* Bounds of the model.                                                    *)
(***************************************************************************)
MaxLocs == 3        \* locators a caller constructs in one run
MaxInner == 2       \* arguments of one BySnapshotDependency call
MaxBuilds == 3      \* builds in the list given to the change-aggregation helper

Values == {"1", "bt"}       \* the ids, names and versions callers pass

(***************************************************************************)
(* package locate                                                          *)
(***************************************************************************)
Locator(k, v) == [key |-> k, value |-> v]

\* func (l Locator) String() string
String(l) == l.key \o ":" \o l.value

\* fmt.Sprintf("(%v)", s)
Sprintf(s) == "(" \o s \o ")"

ById(id) == Locator("id", id)
ByName(name) == Locator("name", name)
\* ByVersion under the key of ById.
ByVersionKeyedId(version) == Locator("id", version)
ByVersion(version) == Locator("version", version)
ByIncludeInitial(b) == Locator("includeInitial", IF b THEN "true" ELSE "false")

ByBuildType(l) == Locator("buildType", Sprintf(String(l)))
ByAffectedProject(l) == Locator("affectedProject", Sprintf(String(l)))
ByProject(l) == Locator("project", Sprintf(String(l)))
\* ByTo without the parentheses around the inner locator.
ByToNoParens(l) == Locator("to", String(l))
ByTo(l) == Locator("to", Sprintf(String(l)))

\* The outcome of a call: a returned Locator, or a run-time panic.
Returned(l) == [panicked |-> FALSE, key |-> l.key, value |-> l.value]
Panicked == [panicked |-> TRUE, key |-> "", value |-> ""]

\* for _, l := range locators { v += l.String() + "," }
RECURSIVE JoinWithCommas(_)
JoinWithCommas(locators) ==
    IF locators = <<>> THEN ""
    ELSE String(Head(locators)) \o "," \o JoinWithCommas(Tail(locators))

\* BySnapshotDependency keeping the separator that follows the last locator.
BySnapshotDependencyKeepsComma(locators) ==
    LET v == JoinWithCommas(locators) IN
    IF Len(v) - 1 < 0
    THEN Panicked
    ELSE Returned(Locator("snapshotDependency", Sprintf(v)))

\* BySnapshotDependency: v[:len(v)-1] panics (slice bounds out of range)
\* when v is empty, that is when no locator was passed.
BySnapshotDependency(locators) ==
    LET v == JoinWithCommas(locators) IN
    IF Len(v) - 1 < 0
    THEN Panicked
    ELSE Returned(Locator("snapshotDependency", Sprintf(SubSeq(v, 1, Len(v) - 1))))

(***************************************************************************)
(* Library functions the client uses, by what they compute.                *)
(***************************************************************************)
digits == "0123456789"
upper == "ABCDEFGHIJKLMNOPQRSTUVWXYZ"
lower == "abcdefghijklmnopqrstuvwxyz"

\* The place of one-character string c in string s, 0 when it is not there.
indexOf(s, c) ==
    IF \E i \in 1..Len(s) : SubSeq(s, i, i) = c
    THEN CHOOSE i \in 1..Len(s) : SubSeq(s, i, i) = c
    ELSE 0

\* The byte (ASCII code) of a one-character string: digits, letters, ":" and " ".
byteOf(c) ==
    IF indexOf(digits, c) > 0 THEN 47 + indexOf(digits, c)
    ELSE IF indexOf(upper, c) > 0 THEN 64 + indexOf(upper, c)
    ELSE IF indexOf(lower, c) > 0 THEN 96 + indexOf(lower, c)
    ELSE IF c = ":" THEN 58
    ELSE 32

encodeStd == "ABCDEFGHIJKLMNOPQRSTUVWXYZabcdefghijklmnopqrstuvwxyz0123456789+/"

\* base64.StdEncoding.EncodeToString: 3 bytes to 4 characters, "=" padding.
RECURSIVE EncodeToString(_)
EncodeToString(s) ==
    IF Len(s) = 0 THEN ""
    ELSE LET n == IF Len(s) < 3 THEN Len(s) ELSE 3
             b(i) == IF i <= n THEN byteOf(SubSeq(s, i, i)) ELSE 0
             v == b(1) * 65536 + b(2) * 256 + b(3)
             c(k) == SubSeq(encodeStd, k + 1, k + 1)
         IN  c(v \div 262144) \o c((v \div 4096) % 64)
             \o (IF n >= 2 THEN c((v \div 64) % 64) ELSE "=")
             \o (IF n >= 3 THEN c(v % 64) ELSE "=")
             \o EncodeToString(SubSeq(s, n + 1, Len(s)))

\* strconv.Itoa
RECURSIVE Itoa(_)
Itoa(i) ==
    IF i < 0 THEN "-" \o Itoa(-i)
    ELSE IF i < 10 THEN SubSeq(digits, i + 1, i + 1)
    ELSE Itoa(i \div 10) \o SubSeq(digits, (i % 10) + 1, (i % 10) + 1)

\* strings.Split(s, "/")
Split(s) ==
    LET B == {0, Len(s) + 1} \cup {i \in 1..Len(s) : SubSeq(s, i, i) = "/"}
        at(k) == CHOOSE b \in B : Cardinality({c \in B : c < b}) = k - 1
    IN  [k \in 1..(Cardinality(B) - 1) |-> SubSeq(s, at(k) + 1, at(k + 1) - 1)]

\* strings.Join(elems, "/")
RECURSIVE joinSlash(_)
joinSlash(elems) ==
    IF elems = <<>> THEN ""
    ELSE IF Len(elems) = 1 THEN elems[1]
    ELSE elems[1] \o "/" \o joinSlash(Tail(elems))

\* path.Clean's walk over the components of a path: empty and "." components
\* are dropped, ".." removes the component before it (out is the result so far).
RECURSIVE cleanWalk(_, _, _)
cleanWalk(comps, out, rooted) ==
    IF comps = <<>> THEN out
    ELSE LET c == Head(comps)
             rest == Tail(comps)
         IN  IF c = "" \/ c = "." THEN cleanWalk(rest, out, rooted)
             ELSE IF c = ".."
             THEN IF out # <<>> /\ out[Len(out)] # ".."
                  THEN cleanWalk(rest, SubSeq(out, 1, Len(out) - 1), rooted)
                  ELSE IF rooted THEN cleanWalk(rest, out, rooted)
                  ELSE cleanWalk(rest, Append(out, ".."), rooted)
             ELSE cleanWalk(rest, Append(out, c), rooted)

\* path.Clean
Clean(p) ==
    IF p = "" THEN "."
    ELSE LET rooted == SubSeq(p, 1, 1) = "/"
             out == joinSlash(cleanWalk(Split(p), <<>>, rooted))
         IN  IF rooted THEN "/" \o out
             ELSE IF out = "" THEN "." ELSE out

\* path.Join: empty elements are ignored, the rest joined by "/" and cleaned.
pathJoin(elems) ==
    LET nonEmpty == SelectSeq(elems, LAMBDA e : e # "") IN
    IF nonEmpty = <<>> THEN "" ELSE Clean(joinSlash(nonEmpty))

\* Whether string s holds string t.
Contains(s, t) ==
    \E i \in 1..(Len(s) - Len(t) + 1) : SubSeq(s, i, i + Len(t) - 1) = t

\* The host part of a URL: what follows "://" up to the next "/".
hostOf(url) ==
    LET starts == {i \in 1..(Len(url) - 2) : SubSeq(url, i, i + 2) = "://"} IN
    IF starts = {} THEN ""
    ELSE LET from == (CHOOSE i \in starts : \A j \in starts : i <= j) + 3
             ends == {j \in from..Len(url) : SubSeq(url, j, j) = "/"}
             to == IF ends = {} THEN Len(url)
                   ELSE (CHOOSE j \in ends : \A k \in ends : j <= k) - 1
         IN  SubSeq(url, from, to)

\* url.Parse inside http.NewRequest: of the URLs of this model, the ones it
\* rejects are those with a space in the host name (invalid character in host).
urlParseFails(url) == Contains(hostOf(url), " ")

\* encoding/json.Marshal of the value a create/update operation is given: nil
\* marshals to null, an entity to a JSON object of its non-empty fields.
jsonField(name, value) == "\"" \o name \o "\":\"" \o value \o "\""
Nil == [nil |-> TRUE, id |-> "", type |-> ""]
Entity(id, type) == [nil |-> FALSE, id |-> id, type |-> type]
jsonMarshal(t) ==
    IF t.nil THEN "null"
    ELSE "{"
         \o (IF t.id # "" THEN jsonField("id", t.id) ELSE "")
         \o (IF t.id # "" /\ t.type # "" THEN "," ELSE "")
         \o (IF t.type # "" THEN jsonField("type", t.type) ELSE "")
         \o "}"

\* encoding/json.Unmarshal of a response body into a pointer to a struct: a JSON
\* object and null decode; an empty body, text that is not JSON and JSON of
\* another shape (an array, a string, a number) do not.
jsonUnmarshalFails(b) ==
    ~ \/ b = "null"
      \/ Len(b) >= 2 /\ SubSeq(b, 1, 1) = "{" /\ SubSeq(b, Len(b), Len(b)) = "}"

\* No Client is built.
NoClient == [httpClient |-> "", host |-> "", username |-> "", password |-> ""]

(***************************************************************************)
(* The change-aggregation helper, as documented: for a list of builds, fetch *)
(* each build's detail record, collect its changes into a map keyed by     *)
(* version, and return the map's changes ordered by date, latest first.    *)
(***************************************************************************)
Change(version, date) == [version |-> version, date |-> date]

\* The detail records the server holds: build id -> the build's changes.
\* Dates are instants t1 < t2 < t3 < t4, written 1..4.
BuildDetails ==
    <<  <<Change("v1", 1), Change("v2", 2)>>,
        <<Change("v2", 3), Change("v3", 4)>>,
        <<Change("v1", 4), Change("v3", 2)>>  >>

\* The lists of builds a caller passes.
BuildLists == UNION {[1..n -> DOMAIN BuildDetails] : n \in 0..MaxBuilds}

NoChanges == [v \in {} |-> Change("", 0)]

AggIdle ==
    [pc |-> "idle", builds |-> <<>>, i |-> 1, fetched |-> <<>>,
     byVersion |-> NoChanges, out |-> <<>>]

\* m[change.version] = change, keeping the first change stored for a version.
putChangeFirstWins(m, change) ==
    [v \in DOMAIN m \cup {change.version} |->
        IF v \in DOMAIN m THEN m[v] ELSE change]

\* m[change.version] = change: a later change replaces the one stored.
putChange(m, change) ==
    [v \in DOMAIN m \cup {change.version} |->
        IF v = change.version THEN change ELSE m[v]]

\* The changes of one detail record stored into the map, in order.
RECURSIVE collectChanges(_, _)
collectChanges(m, changes) ==
    IF changes = <<>> THEN m
    ELSE collectChanges(putChange(m, Head(changes)), Tail(changes))

\* The orders a sort by date, latest first, may give the map's changes: the
\* map is iterated in no fixed order and the sort need not be stable, so
\* changes of equal date come out in either order.
sortedByDateDesc(m) ==
    LET n == Cardinality(DOMAIN m)
        values == {m[v] : v \in DOMAIN m}
    IN  {s \in [1..n -> values] :
            /\ \A v \in values : \E k \in 1..n : s[k] = v
            /\ \A j, k \in 1..n : j < k => s[j].date >= s[k].date}

(***************************************************************************)
(* Property, Params and Project: the lookup of a property by name.         *)
(***************************************************************************)
MaxProps == 2       \* properties in the list a lookup is given

Names == {"a", "b"}             \* the names properties carry
Targets == {"a", "b", "c"}      \* the names callers look up

\* type Property struct { Name, Value string; Own bool }
Property(name, value, own) == [Name |-> name, Value |-> value, Own |-> own]

\* Property{}: every field at its zero value.
EmptyProperty == Property("", "", FALSE)

Properties == {Property(n, v, FALSE) : n \in Names, v \in Values}

\* type Params struct { Properties []Property }
Params(properties) == [Properties |-> properties]

\* type Project struct: the fields a lookup reads.
Project(id, params) == [Id |-> id, Params |-> params]

PropertyLists == UNION {[1..n -> Properties] : n \in 0..MaxProps}

\* The loop without its early return: the last property of the name is kept.
RECURSIVE ParamsPropertyFromNameLastWins(_, _)
ParamsPropertyFromNameLastWins(params, target) ==
    IF params.Properties = <<>> THEN EmptyProperty
    ELSE LET n == Len(params.Properties)
             property == params.Properties[n]
         IN  IF property.Name = target THEN property
             ELSE ParamsPropertyFromNameLastWins(
                      Params(SubSeq(params.Properties, 1, n - 1)), target)

\* func (params Params) PropertyFromName(target string) Property
RECURSIVE ParamsPropertyFromName(_, _)
ParamsPropertyFromName(params, target) ==
    IF params.Properties = <<>> THEN EmptyProperty
    ELSE LET property == Head(params.Properties)
         IN  IF property.Name = target THEN property
             ELSE ParamsPropertyFromName(Params(Tail(params.Properties)), target)

\* func (project Project) PropertyFromName(target string) Property
ProjectPropertyFromName(project, target) ==
    ParamsPropertyFromName(project.Params, target)

NoLookup == [op |-> "none", target |-> "", ret |-> EmptyProperty]

\* The caller holds no list and made no lookup; given is the list as the
\* caller built it.
PropsIdle == [params |-> Params(<<>>), given |-> Params(<<>>), last |-> NoLookup]

(***************************************************************************)
(* type Time time.Time and its JSON form in dateFormat,                    *)
(* "20060102T150405-0700": year, month, day, "T", hour, minute, second and *)
(* the numeric zone.  A time is the instant it names, as days since        *)
(* January 1 of year 1 and seconds of that day in UTC, with the            *)
(* nanoseconds and the zone offset (seconds east of UTC) of its location.  *)
(***************************************************************************)
\* The error values: nil, and an error of a message.
NilError == [nil |-> TRUE, msg |-> ""]
Error(msg) == [nil |-> FALSE, msg |-> msg]

Instant(day, sod, nsec, offset) ==
    [day |-> day, sod |-> sod, nsec |-> nsec, offset |-> offset]

\* Time{}: January 1, year 1, 00:00:00 UTC.
ZeroTime == Instant(0, 0, 0, 0)

secondsPerDay == 86400

\* isDigit(s, i): place i of s (counted from 1) holds a decimal digit.
isDigit(s, i) == i <= Len(s) /\ indexOf(digits, SubSeq(s, i, i)) > 0

\* The string from place i on; empty when i is past the end.
From(s, i) == IF i > Len(s) THEN "" ELSE SubSeq(s, i, Len(s))

\* strings.Trim(s, cutset) for a cutset of one character.
Trim(s, cutset) ==
    LET keep == {i \in 1..Len(s) : SubSeq(s, i, i) # cutset} IN
    IF keep = {} THEN ""
    ELSE SubSeq(s, CHOOSE i \in keep : \A j \in keep : i <= j,
                   CHOOSE i \in keep : \A j \in keep : j <= i)

\* The number a run of decimal digits writes.
RECURSIVE digitsValue(_)
digitsValue(s) ==
    IF s = "" THEN 0
    ELSE 10 * digitsValue(SubSeq(s, 1, Len(s) - 1))
            + indexOf(digits, SubSeq(s, Len(s), Len(s))) - 1

\* getnum(s, fixed): a number of two digits, or of one when fixed is false and
\* no second digit follows.
getnum(s, fixed) ==
    IF ~isDigit(s, 1) THEN [ok |-> FALSE, n |-> 0, rest |-> s]
    ELSE IF ~isDigit(s, 2)
         THEN IF fixed THEN [ok |-> FALSE, n |-> 0, rest |-> s]
              ELSE [ok |-> TRUE, n |-> digitsValue(SubSeq(s, 1, 1)), rest |-> From(s, 2)]
    ELSE [ok |-> TRUE, n |-> digitsValue(SubSeq(s, 1, 2)), rest |-> From(s, 3)]

isLeap(year) == year % 4 = 0 /\ (year % 100 # 0 \/ year % 400 = 0)

\* daysBefore[m]: the days of a non-leap year before month m begins.
daysBefore == <<0, 31, 59, 90, 120, 151, 181, 212, 243, 273, 304, 334, 365>>

daysIn(month, year) ==
    IF month = 2 /\ isLeap(year) THEN 29
    ELSE daysBefore[month + 1] - daysBefore[month]

\* The days from January 1 of year 1 to the given date.
daysSinceEpoch(year, month, day) ==
    LET y == year - 1 IN
    365 * y + (y \div 4) - (y \div 100) + (y \div 400)
        + daysBefore[month] + (IF month > 2 /\ isLeap(year) THEN 1 ELSE 0)
        + day - 1

\* time.Date(year, month, day, hour, min, sec, nsec, UTC) moved by -offset
\* seconds and given a location of that offset.
Date(year, month, day, hour, min, sec, nsec, offset) ==
    LET s == hour * 3600 + min * 60 + sec - offset
        d == daysSinceEpoch(year, month, day) + (s \div secondsPerDay)
    IN  Instant(d, s % secondsPerDay, nsec, offset)

RECURSIVE pow10(_)
pow10(k) == IF k = 0 THEN 1 ELSE 10 * pow10(k - 1)

\* The fraction of a second that may follow the seconds though the layout has
\* none: a period or comma and a run of digits.  lead is the run's length.
fractionLead(s) ==
    IF Len(s) >= 2 /\ SubSeq(s, 1, 1) \in {".", ","} /\ isDigit(s, 2)
    THEN CHOOSE n \in 1..(Len(s) - 1) :
            /\ \A i \in 2..(n + 1) : isDigit(s, i)
            /\ ~isDigit(s, n + 2)
    ELSE 0

\* parseNanoseconds: at most nine digits count.
parseNanoseconds(s, lead) ==
    LET n == IF lead > 9 THEN 9 ELSE lead IN
    digitsValue(SubSeq(s, 2, n + 1)) * pow10(9 - n)

Parsed(t) == [err |-> NilError, t |-> t]
ParseError(msg) == [err |-> Error(msg), t |-> ZeroTime]

\* time.Parse(dateFormat, value), element by element of the layout; the first
\* element that does not parse, or parses out of range, ends it.
Parse(value) ==
    IF Len(value) < 4 \/ \E i \in 1..4 : ~isDigit(value, i)
    THEN ParseError("cannot parse as 2006") ELSE
    LET year == digitsValue(SubSeq(value, 1, 4))
        mo == getnum(From(value, 5), TRUE)
    IN
    IF ~mo.ok THEN ParseError("cannot parse as 01") ELSE
    IF mo.n <= 0 \/ 12 < mo.n THEN ParseError("month out of range") ELSE
    LET dd == getnum(mo.rest, TRUE) IN
    IF ~dd.ok THEN ParseError("cannot parse as 02") ELSE
    IF Len(dd.rest) < 1 \/ SubSeq(dd.rest, 1, 1) # "T"
    THEN ParseError("cannot parse as T") ELSE
    LET hh == getnum(From(dd.rest, 2), FALSE) IN
    IF ~hh.ok THEN ParseError("cannot parse as 15") ELSE
    IF hh.n < 0 \/ 24 <= hh.n THEN ParseError("hour out of range") ELSE
    LET mi == getnum(hh.rest, TRUE) IN
    IF ~mi.ok THEN ParseError("cannot parse as 04") ELSE
    IF mi.n < 0 \/ 60 <= mi.n THEN ParseError("minute out of range") ELSE
    LET ss == getnum(mi.rest, TRUE) IN
    IF ~ss.ok THEN ParseError("cannot parse as 05") ELSE
    IF ss.n < 0 \/ 60 <= ss.n THEN ParseError("second out of range") ELSE
    LET lead == fractionLead(ss.rest)
        nsec == IF lead = 0 THEN 0 ELSE parseNanoseconds(ss.rest, lead)
        zone == IF lead = 0 THEN ss.rest ELSE From(ss.rest, lead + 2)
    IN
    IF Len(zone) < 5 THEN ParseError("cannot parse as -0700") ELSE
    LET sign == SubSeq(zone, 1, 1)
        zh == getnum(SubSeq(zone, 2, 3), TRUE)
        zm == getnum(SubSeq(zone, 4, 5), TRUE)
    IN
    IF ~zh.ok \/ ~zm.ok THEN ParseError("cannot parse as -0700") ELSE
    IF zh.n > 24 THEN ParseError("time zone offset hour out of range") ELSE
    IF zm.n > 60 THEN ParseError("time zone offset minute out of range") ELSE
    IF sign \notin {"+", "-"} THEN ParseError("cannot parse as -0700") ELSE
    LET zoneOffset == IF sign = "+" THEN (zh.n * 60 + zm.n) * 60
                      ELSE -((zh.n * 60 + zm.n) * 60)
    IN
    IF Len(zone) > 5 THEN ParseError("extra text") ELSE
    IF dd.n < 1 \/ dd.n > daysIn(mo.n, year) THEN ParseError("day out of range") ELSE
    Parsed(Date(year, mo.n, dd.n, hh.n, mi.n, ss.n, nsec, zoneOffset))

\* appendInt(b, x, width): x in decimal, padded with zeros to width.
appendInt(x, width) ==
    LET s == Itoa(x)
        zeros == "0000"
    IN  IF Len(s) >= width THEN s ELSE SubSeq(zeros, 1, width - Len(s)) \o s

\* The year and the day of the year (from 0) of a day since January 1, year 1.
absDate(days) ==
    LET n400 == days \div 146097
        d1 == days - 146097 * n400
        c == d1 \div 36524
        n100 == IF c = 4 THEN 3 ELSE c
        d2 == d1 - 36524 * n100
        n4 == d2 \div 1461
        d3 == d2 - 1461 * n4
        q == d3 \div 365
        n1 == IF q = 4 THEN 3 ELSE q
    IN  [year |-> 400 * n400 + 100 * n100 + 4 * n4 + n1 + 1,
         yday |-> d3 - 365 * n1]

\* The month and the day of the month of day yday (from 0) of the year.
monthDay(year, yday) ==
    LET leap(m) == IF m > 2 /\ isLeap(year) THEN 1 ELSE 0
        begin(m) == daysBefore[m] + leap(m)
        month == CHOOSE m \in 1..12 : begin(m) <= yday /\ yday < begin(m + 1)
    IN  [month |-> month, day |-> yday - begin(month) + 1]

\* The zone as the seconds are dropped: a sign, the hours and the minutes.
formatZone(offset) ==
    LET zone == IF offset < 0 THEN -((-offset) \div 60) ELSE offset \div 60
        abs == IF zone < 0 THEN -zone ELSE zone
    IN  (IF zone < 0 THEN "-" ELSE "+")
            \o appendInt(abs \div 60, 2) \o appendInt(abs % 60, 2)

\* time.Time(t).Format(dateFormat): the clock the instant shows in its zone.
Format(t) ==
    LET s == t.sod + t.offset
        date == absDate(t.day + (s \div secondsPerDay))
        md == monthDay(date.year, date.yday)
        clock == s % secondsPerDay
    IN  appendInt(date.year, 4) \o appendInt(md.month, 2) \o appendInt(md.day, 2)
            \o "T" \o appendInt(clock \div 3600, 2)
            \o appendInt((clock % 3600) \div 60, 2) \o appendInt(clock % 60, 2)
            \o formatZone(t.offset)

\* func (t *Time) UnmarshalJSON(buf []byte) error: the error and the Time
\* that *t holds when it returns.
TimeUnmarshalJSON(t, buf) ==
    LET r == Parse(Trim(buf, "\"")) IN
    IF ~r.err.nil THEN [err |-> r.err, t |-> t]
    ELSE [err |-> NilError, t |-> r.t]

\* func (t Time) MarshalJSON() ([]byte, error)
TimeMarshalJSON(t) == "\"" \o Format(t) \o "\""

\* The JSON values a Time is decoded from: quoted literals of a date, a clock
\* and a zone, and values of other shapes.
Dates == {"20230615", "20240229", "20230230", "20231301"}
Clocks == {"120000", "235959", "120000.5"}
Zones == {"+0000", "-0000", "-0700", "+0530"}
OtherShapes ==
    {"null", "\"\"", "\"2023-06-15T12:00:00Z\"", "\"20230615T120000\"",
     "\"20230615 120000+0000\"", "\"20230615T120000+0000 \"",
     "\"20230615T120000Z\""}
TimeInputs ==
    {"\"" \o d \o "T" \o c \o z \o "\"" : d \in Dates, c \in Clocks, z \in Zones}
        \cup OtherShapes

NoTimeCall == [op |-> "none", buf |-> "", before |-> ZeroTime, err |-> NilError, out |-> ""]

\* A Time at its zero value; from is the input its value was decoded from.
TimesIdle == [t |-> ZeroTime, from |-> "", last |-> NoTimeCall]

(***************************************************************************)
(* Trigger and its JSON form.  encoding/json works on the bytes of a       *)
(* string, so the strings of a Trigger and the string literals of a JSON   *)
(* document are sequences of bytes here.  A document is kept as its        *)
(* members; each string value is its literal text, quotes and escapes      *)
(* included.                                                               *)
(***************************************************************************)
\* []byte(s) for a string of digits and letters.
toBytes(s) == [i \in 1..Len(s) |-> byteOf(SubSeq(s, i, i))]

\* utf8.DecodeRune at place i of s: the rune, the bytes it takes and whether
\* they encode it; bytes that encode none are one RuneError each.
decodeRune(s, i) ==
    LET n == Len(s)
        b == s[i]
        cont(j) == j <= n /\ s[j] >= 128 /\ s[j] <= 191
    IN  IF b < 128 THEN [valid |-> TRUE, size |-> 1, rune |-> b]
        ELSE IF b >= 194 /\ b <= 223 /\ cont(i + 1)
        THEN [valid |-> TRUE, size |-> 2, rune |-> (b - 192) * 64 + (s[i + 1] - 128)]
        ELSE IF /\ b >= 224 /\ b <= 239 /\ cont(i + 1) /\ cont(i + 2)
                /\ (b = 224 => s[i + 1] >= 160)
                /\ (b = 237 => s[i + 1] <= 159)
        THEN [valid |-> TRUE, size |-> 3,
              rune |-> (b - 224) * 4096 + (s[i + 1] - 128) * 64 + (s[i + 2] - 128)]
        ELSE IF /\ b >= 240 /\ b <= 244 /\ cont(i + 1) /\ cont(i + 2) /\ cont(i + 3)
                /\ (b = 240 => s[i + 1] >= 144)
                /\ (b = 244 => s[i + 1] <= 143)
        THEN [valid |-> TRUE, size |-> 4,
              rune |-> (b - 240) * 262144 + (s[i + 1] - 128) * 4096
                        + (s[i + 2] - 128) * 64 + (s[i + 3] - 128)]
        ELSE [valid |-> FALSE, size |-> 1, rune |-> 65533]

\* utf8.AppendRune for a rune of the basic plane.
appendRune(r) ==
    IF r < 128 THEN <<r>>
    ELSE IF r < 2048 THEN <<192 + (r \div 64), 128 + (r % 64)>>
    ELSE <<224 + (r \div 4096), 128 + ((r \div 64) % 64), 128 + (r % 64)>>

\* utf8.ValidString
RECURSIVE validFrom(_, _)
validFrom(s, i) ==
    IF i > Len(s) THEN TRUE
    ELSE LET r == decodeRune(s, i) IN r.valid /\ validFrom(s, i + r.size)
ValidString(s) == validFrom(s, 1)

\* The byte of hexadecimal digit n, and the digit of a byte.
hexByte(n) == IF n < 10 THEN 48 + n ELSE 87 + n
unhex(b) ==
    IF b >= 48 /\ b <= 57 THEN b - 48
    ELSE IF b >= 97 /\ b <= 102 THEN b - 87
    ELSE b - 55

\* \uXXXX for a rune of the basic plane.
escapeU(r) ==
    <<92, 117, hexByte(r \div 4096), hexByte((r \div 256) % 16),
      hexByte((r \div 16) % 16), hexByte(r % 16)>>

\* encoding/json's string encoder from place i on, with HTML escaping: quote,
\* backslash, control bytes, <, > and & are escaped, U+2028 and U+2029 too, and
\* bytes that are not UTF-8 are written as �.
RECURSIVE encodeFrom(_, _)
encodeFrom(s, i) ==
    IF i > Len(s) THEN <<>>
    ELSE LET r == decodeRune(s, i)
             b == s[i]
             out == IF ~r.valid THEN escapeU(65533)
                    ELSE IF b = 34 \/ b = 92 THEN <<92, b>>
                    ELSE IF b = 10 THEN <<92, 110>>
                    ELSE IF b = 13 THEN <<92, 114>>
                    ELSE IF b = 9 THEN <<92, 116>>
                    ELSE IF b < 32 \/ b \in {60, 62, 38} THEN escapeU(b)
                    ELSE IF r.rune \in {8232, 8233} THEN escapeU(r.rune)
                    ELSE SubSeq(s, i, i + r.size - 1)
         IN  out \o encodeFrom(s, i + r.size)

\* A Go string as a JSON string literal.
encodeString(s) == <<34>> \o encodeFrom(s, 1) \o <<34>>

\* encoding/json's unquote of the text between the quotes, from place i on:
\* escapes are undone and bytes that are not UTF-8 become U+FFFD.
RECURSIVE unquoteFrom(_, _)
unquoteFrom(s, i) ==
    IF i > Len(s) THEN <<>>
    ELSE IF s[i] = 92 /\ i < Len(s)
    THEN LET c == s[i + 1] IN
         IF c = 117 /\ i + 5 <= Len(s)
         THEN appendRune(unhex(s[i + 2]) * 4096 + unhex(s[i + 3]) * 256
                            + unhex(s[i + 4]) * 16 + unhex(s[i + 5]))
                \o unquoteFrom(s, i + 6)
         ELSE (IF c = 110 THEN <<10>>
               ELSE IF c = 114 THEN <<13>>
               ELSE IF c = 116 THEN <<9>>
               ELSE IF c = 98 THEN <<8>>
               ELSE IF c = 102 THEN <<12>>
               ELSE <<c>>) \o unquoteFrom(s, i + 2)
    ELSE LET r == decodeRune(s, i) IN
         (IF r.valid THEN SubSeq(s, i, i + r.size - 1) ELSE appendRune(65533))
            \o unquoteFrom(s, i + r.size)

\* The Go string a JSON string literal stands for.
decodeString(lit) == unquoteFrom(SubSeq(lit, 2, Len(lit) - 1), 1)

\* A member of a JSON object: left out, or present with its string literal.
Absent == [present |-> FALSE, lit |-> <<>>]
Member(lit) == [present |-> TRUE, lit |-> lit]

\* A string field under omitempty, and one that is always written.
omitEmptyString(s) == IF s = <<>> THEN Absent ELSE Member(encodeString(s))
alwaysString(s) == Member(encodeString(s))

\* The field a member decodes into: the zero value when it is left out.
memberString(m) == IF m.present THEN decodeString(m.lit) ELSE <<>>

\* strconv.FormatBool
FormatBool(b) == IF b THEN toBytes("true") ELSE toBytes("false")

\* strconv.ParseBool
ParseBool(str) ==
    IF str \in {toBytes("1"), toBytes("t"), toBytes("T"), toBytes("TRUE"), toBytes("true"), toBytes("True")}
    THEN [err |-> NilError, b |-> TRUE]
    ELSE IF str \in {toBytes("0"), toBytes("f"), toBytes("F"), toBytes("FALSE"), toBytes("false"), toBytes("False")}
    THEN [err |-> NilError, b |-> FALSE]
    ELSE [err |-> Error("strconv.ParseBool: invalid syntax"), b |-> FALSE]

\* type Trigger struct { Id, DependsOn string; AfterSuccessfulBuildOnly bool }
Trigger(id, dependsOn, afterSuccessfulBuildOnly) ==
    [Id |-> id, DependsOn |-> dependsOn,
     AfterSuccessfulBuildOnly |-> afterSuccessfulBuildOnly]

\* type PropertyList struct { Count int; Properties []Property }, behind a
\* pointer that may be nil.
NilPropertyList == [nil |-> TRUE, Count |-> 0, Properties |-> <<>>]
PropertyList(count, properties) ==
    [nil |-> FALSE, Count |-> count, Properties |-> properties]

\* The orders in which a range over a map may give its keys.
rangeOrders(m) ==
    LET n == Cardinality(DOMAIN m) IN
    {o \in [1..n -> DOMAIN m] : \A k \in DOMAIN m : \E i \in 1..n : o[i] = k}

\* func NewPropertyList(m map[string]string) *PropertyList: the lists it may
\* return, one for each order of the range over m.
NewPropertyList(m) ==
    {PropertyList(Len(o), [i \in 1..Len(o) |-> Property(o[i], m[o[i]], FALSE)]) :
        o \in rangeOrders(m)}

\* Value with the place of the property fixed, whatever its name.
PropertyListValueByPlace(pl, name) ==
    IF pl.nil \/ pl.Properties = <<>> THEN <<>>
    ELSE IF name = toBytes("dependsOn") THEN pl.Properties[1].Value
    ELSE pl.Properties[Len(pl.Properties)].Value

\* func (pl *PropertyList) Value(name string) string
RECURSIVE PropertyListValue(_, _)
PropertyListValue(pl, name) ==
    IF pl.nil THEN <<>>
    ELSE IF pl.Properties = <<>> THEN <<>>
    ELSE IF Head(pl.Properties).Name = name THEN Head(pl.Properties).Value
    ELSE PropertyListValue(PropertyList(pl.Count, Tail(pl.Properties)), name)

\* func (pl *PropertyList) Bool(name string) bool
PropertyListBool(pl, name) ==
    IF pl.nil THEN FALSE
    ELSE LET r == ParseBool(PropertyListValue(pl, name)) IN
         IF ~r.err.nil THEN FALSE ELSE r.b

\* The JSON document of a jsonTrigger (members id, type and properties), and
\* text that is no JSON document of an object.
NoProperties == [present |-> FALSE, null |-> FALSE, count |-> 0, property |-> <<>>]
NullProperties == [present |-> TRUE, null |-> TRUE, count |-> 0, property |-> <<>>]
PropertiesMember(count, property) ==
    [present |-> TRUE, null |-> FALSE, count |-> count, property |-> property]
TriggerDocument(id, type, properties) ==
    [valid |-> TRUE, id |-> id, type |-> type, properties |-> properties]
Malformed == [valid |-> FALSE, id |-> Absent, type |-> Absent, properties |-> NoProperties]

\* json.Marshal of a Property: name under omitempty, value always; own is
\* false here and left out.
marshalProperty(property) ==
    [name |-> omitEmptyString(property.Name), value |-> alwaysString(property.Value)]

\* json.Marshal of a *PropertyList under omitempty: count and property.
marshalPropertyList(pl) ==
    IF pl.nil THEN NoProperties
    ELSE PropertiesMember(pl.Count,
            [i \in 1..Len(pl.Properties) |-> marshalProperty(pl.Properties[i])])

\* json.Unmarshal of the properties member into a *PropertyList.
unmarshalPropertyList(member) ==
    IF ~member.present \/ member.null THEN NilPropertyList
    ELSE PropertyList(member.count,
            [i \in 1..Len(member.property) |->
                Property(memberString(member.property[i].name),
                         memberString(member.property[i].value), FALSE)])

triggerType == toBytes("buildDependencyTrigger")

\* func (t Trigger) MarshalJSON() ([]byte, error): the documents it may give.
TriggerMarshalJSON(t) ==
    LET m == (toBytes("dependsOn") :> t.DependsOn)
                @@ (toBytes("afterSuccessfulBuildOnly") :> FormatBool(t.AfterSuccessfulBuildOnly))
    IN  {TriggerDocument(omitEmptyString(t.Id), omitEmptyString(triggerType),
                         marshalPropertyList(pl)) : pl \in NewPropertyList(m)}

\* func (t *Trigger) UnmarshalJSON(data []byte) error: the error and the
\* Trigger that *t holds when it returns.
TriggerUnmarshalJSON(t, data) ==
    IF ~data.valid THEN [err |-> Error("invalid character"), t |-> t]
    ELSE LET pl == unmarshalPropertyList(data.properties) IN
         [err |-> NilError,
          t |-> Trigger(memberString(data.id),
                        PropertyListValue(pl, toBytes("dependsOn")),
                        PropertyListBool(pl, toBytes("afterSuccessfulBuildOnly")))]

\* The strings of the Triggers of the model: empty, letters and digits, a
\* quote, a "<", a two-byte rune, and a byte that is not UTF-8.
TriggerIds == {<<>>, toBytes("T1"), <<34>>, <<255>>}
TriggerDependsOn == {<<>>, toBytes("bt"), <<60, 195, 169>>, <<98, 255>>}
Triggers ==
    {Trigger(id, d, a) : id \in TriggerIds, d \in TriggerDependsOn, a \in BOOLEAN}

\* The documents a Trigger is decoded from besides those it was encoded to.
GivenDocuments ==
    {Malformed,
     TriggerDocument(alwaysString(toBytes("T1")), alwaysString(triggerType), NoProperties),
     TriggerDocument(alwaysString(toBytes("T1")), alwaysString(triggerType), NullProperties),
     TriggerDocument(Absent, Absent, PropertiesMember(0, <<>>)),
     TriggerDocument(alwaysString(toBytes("T1")), alwaysString(triggerType),
        PropertiesMember(1,
            <<[name |-> alwaysString(toBytes("afterSuccessfulBuildOnly")),
               value |-> alwaysString(toBytes("yes"))]>>)),
     TriggerDocument(alwaysString(toBytes("T1")), alwaysString(triggerType),
        PropertiesMember(2,
            <<[name |-> alwaysString(toBytes("afterSuccessfulBuildOnly")),
               value |-> alwaysString(toBytes("1"))],
              [name |-> alwaysString(toBytes("dependsOn")),
               value |-> alwaysString(toBytes("bt"))]>>))}

NoTriggerCall ==
    [op |-> "none", data |-> Malformed, before |-> Trigger(<<>>, <<>>, FALSE),
     roundTrip |-> FALSE, err |-> NilError]

\* A Trigger at its zero value on which no call was made.
TrigsIdle == [t |-> Trigger(<<>>, <<>>, FALSE), last |-> NoTriggerCall]

\* No call on a value type was made.
ValuesIdle ==
    /\ props = PropsIdle
    /\ times = TimesIdle
    /\ trigs = TrigsIdle

(***************************************************************************)
(* The caller of package locate: it constructs locators one call at a time *)
(* and may pass the ones it holds to the nesting constructors.             *)
(***************************************************************************)
NoCall == [op |-> "none", idx |-> <<>>, args |-> <<>>, ret |-> Returned(Locator("", ""))]

InitLocate ==
    /\ pool = <<>>
    /\ last = NoCall
    /\ aborted = FALSE
    /\ client = NoClient
    /\ calls = <<>>
    /\ agg = AggIdle
    /\ ValuesIdle

\* The caller is alive and still constructs locators.
CanCall == ~aborted /\ Len(pool) < MaxLocs

\* A call of constructor op with args that returns (or panics with) ret; idx are
\* the places in pool of the locators passed (by value) as args.
Record(op, idx, args, ret) ==
    /\ last' = [op |-> op, idx |-> idx, args |-> args, ret |-> ret]
    /\ aborted' = ret.panicked
    /\ pool' = IF ret.panicked THEN pool ELSE Append(pool, Locator(ret.key, ret.value))
    /\ UNCHANGED <<clientVars, helperVars, valueVars>>

CallById ==
    /\ CanCall
    /\ \E id \in Values : Record("ById", <<>>, <<id>>, Returned(ById(id)))
CallByName ==
    /\ CanCall
    /\ \E name \in Values : Record("ByName", <<>>, <<name>>, Returned(ByName(name)))
CallByVersion ==
    /\ CanCall
    /\ \E v \in Values : Record("ByVersion", <<>>, <<v>>, Returned(ByVersion(v)))
CallByIncludeInitial ==
    /\ CanCall
    /\ \E b \in BOOLEAN :
        Record("ByIncludeInitial", <<>>, <<b>>, Returned(ByIncludeInitial(b)))

CallByBuildType ==
    /\ CanCall
    /\ \E i \in DOMAIN pool :
        Record("ByBuildType", <<i>>, <<pool[i]>>, Returned(ByBuildType(pool[i])))
CallByAffectedProject ==
    /\ CanCall
    /\ \E i \in DOMAIN pool :
        Record("ByAffectedProject", <<i>>, <<pool[i]>>, Returned(ByAffectedProject(pool[i])))
CallByProject ==
    /\ CanCall
    /\ \E i \in DOMAIN pool :
        Record("ByProject", <<i>>, <<pool[i]>>, Returned(ByProject(pool[i])))
CallByTo ==
    /\ CanCall
    /\ \E i \in DOMAIN pool : Record("ByTo", <<i>>, <<pool[i]>>, Returned(ByTo(pool[i])))

\* The argument lists of a variadic call: 0..MaxInner locators the caller holds.
ArgLists == UNION {[1..n -> DOMAIN pool] : n \in 0..MaxInner}

CallBySnapshotDependency ==
    /\ CanCall
    /\ \E idx \in ArgLists :
        LET locators == [k \in DOMAIN idx |-> pool[idx[k]]] IN
        Record("BySnapshotDependency", idx, locators, BySnapshotDependency(locators))

NextLocate ==
    \/ CallById
    \/ CallByName
    \/ CallByVersion
    \/ CallByIncludeInitial
    \/ CallByBuildType
    \/ CallByAffectedProject
    \/ CallByProject
    \/ CallByTo
    \/ CallBySnapshotDependency

SpecLocate == InitLocate /\ [][NextLocate]_vars

(***************************************************************************)
(* package teamcity: client.go                                             *)
(***************************************************************************)
basePathSuffix == "/httpAuth/app/rest/"
projectsPath == "projects"
buildsPath == "builds"
buildTypesPath == "buildTypes"
buildQueuePath == "buildQueue"
changesPath == "changes"
parametersPath == "parameters"
templatePath == "template"
artifactDependencyPath == "artifact-dependencies"
snapshotDependencyPath == "snapshot-dependencies"
triggerPath == "triggers"
vcsRootsPath == "vcs-roots"
tagsPath == "tags"
locatorParamKey == "?locator="
artifactDependencyType == "artifact_dependency"
snapshotDependencyType == "snapshot_dependency"
jsonContentType == "application/json"

\* The inputs of the model.
Hosts == {"http://tc", "http://t c"}        \* the second is no valid URL host
Usernames == {"a", "ab"}
Passwords == {"b", "cd"}
Selectors == {"id:1", "", ".."}             \* a locator, and two edge cases of path.Join
BuildIds == {7, 12}
DependencyIds == {"dep1"}
Entities == {Entity("e1", "")}              \* what a create/update operation is given
Bodies == {"", "{}", "[]", "Not Found"}     \* what ioutil.ReadAll reads
StatusCodes == {200, 404}
TransportErrors == {"dial tcp: connection refused"}

\* func NewClient(host, username, password string) *Client
NewClient(host, username, password) ==
    [httpClient |-> "http.DefaultClient", host |-> host,
     username |-> username, password |-> password]

\* What a call holds: the request it built, the response it got, what it returns.
NoHeader == [h \in {} |-> ""]
NoData == [present |-> FALSE, bytes |-> ""]
Data(bytes) == [present |-> TRUE, bytes |-> bytes]
NoRequest == [method |-> "", url |-> "", body |-> NoData, header |-> NoHeader]
NoResponse == [kind |-> "none", status |-> 0, body |-> "", msg |-> ""]
TransportError(msg) == [kind |-> "error", status |-> 0, body |-> "", msg |-> msg]
Response(status, body) == [kind |-> "response", status |-> status, body |-> body, msg |-> ""]
NilResult == [nil |-> TRUE, from |-> ""]
Decoded(body) == [nil |-> FALSE, from |-> body]

\* What httpClient.Do may give back: a transport error, or a response of any
\* status whose body reads as any of Bodies.
Outcomes ==
    {TransportError(m) : m \in TransportErrors}
        \cup {Response(s, b) : s \in StatusCodes, b \in Bodies}

Idle ==
    [pc |-> "idle", op |-> "", args |-> <<>>, req |-> NoRequest, nreq |-> 0,
     read |-> FALSE, resp |-> NoResponse, result |-> NilResult, err |-> NilError]

\* An operation has returned (result, err) to its caller; its locals are gone.
ReturnedCall(op, nreq, read, resp, result, err) ==
    [pc |-> "returned", op |-> op, args |-> <<>>, req |-> NoRequest, nreq |-> nreq,
     read |-> read, resp |-> resp, result |-> result, err |-> err]

\* The headers with the credentials sent as they are, not base64-encoded.
requestHeaderRawCredentials(c, contentType) ==
    ("Authorization" :> ("Basic " \o c.username \o ":" \o c.password))
        @@ ("Accept" :> "application/json")
        @@ ("Content-Type" :> (IF Len(contentType) > 0 THEN contentType ELSE jsonContentType))

\* The headers doRequest sets on every request.
requestHeader(c, contentType) ==
    ("Authorization" :> ("Basic " \o EncodeToString(c.username \o ":" \o c.password)))
        @@ ("Accept" :> "application/json")
        @@ ("Content-Type" :> (IF Len(contentType) > 0 THEN contentType ELSE jsonContentType))

\* doRequest keeping the base path in the client: c.host grows with each call.
doRequestKeepsBasePath(g, op, args, method, path, contentType, data) ==
    LET url == client.host \o basePathSuffix \o path IN
    /\ calls' = [calls EXCEPT ![g] =
            IF urlParseFails(url)
            THEN ReturnedCall(op, 0, FALSE, NoResponse, NilResult,
                              Error("parse " \o url \o ": invalid character in host name"))
            ELSE [pc |-> "waiting", op |-> op, args |-> args,
                  req |-> [method |-> method, url |-> url, body |-> data,
                           header |-> requestHeader(client, contentType)],
                  nreq |-> 1, read |-> FALSE, resp |-> NoResponse,
                  result |-> NilResult, err |-> NilError]]
    /\ client' = [client EXCEPT !.host = client.host \o basePathSuffix]
    /\ UNCHANGED <<locateVars, helperVars, valueVars>>

\* doRequest up to httpClient.Do: the request is built (http.NewRequest may
\* fail, and the operation then returns that error) and handed to the transport.
\* Logger writes to ioutil.Discard and changes nothing.
doRequest(g, op, args, method, path, contentType, data) ==
    LET url == client.host \o basePathSuffix \o path IN
    /\ calls' = [calls EXCEPT ![g] =
            IF urlParseFails(url)
            THEN ReturnedCall(op, 0, FALSE, NoResponse, NilResult,
                              Error("parse " \o url \o ": invalid character in host name"))
            ELSE [pc |-> "waiting", op |-> op, args |-> args,
                  req |-> [method |-> method, url |-> url, body |-> data,
                           header |-> requestHeader(client, contentType)],
                  nreq |-> 1, read |-> FALSE, resp |-> NoResponse,
                  result |-> NilResult, err |-> NilError]]
    /\ UNCHANGED <<client, locateVars, helperVars, valueVars>>

\* doJSONRequest: json.Marshal(t) is the body (it does not fail for the
\* entities of this package), sent as application/json.
doJSONRequest(g, op, args, method, path, t) ==
    doRequest(g, op, args, method, path, jsonContentType, Data(jsonMarshal(t)))

\* afterDo with the decoder's own message in place of the body text.
afterDoGenericMessage(call, resp) ==
    IF resp.kind = "error"
    THEN ReturnedCall(call.op, call.nreq, FALSE, resp, NilResult, Error(resp.msg))
    ELSE IF jsonUnmarshalFails(resp.body)
    THEN ReturnedCall(call.op, call.nreq, TRUE, resp, NilResult,
                      Error("unexpected end of JSON input"))
    ELSE ReturnedCall(call.op, call.nreq, TRUE, resp, Decoded(resp.body), NilError)

\* afterDo sending the request again when the transport failed.
afterDoRetries(call, resp) ==
    IF resp.kind = "error"
    THEN [call EXCEPT !.nreq = call.nreq + 1]
    ELSE IF jsonUnmarshalFails(resp.body)
    THEN ReturnedCall(call.op, call.nreq, TRUE, resp, NilResult, Error(resp.body))
    ELSE ReturnedCall(call.op, call.nreq, TRUE, resp, Decoded(resp.body), NilError)

\* afterDo going on to read and decode the body when the transport failed.
afterDoIgnoresTransportError(call, resp) ==
    IF jsonUnmarshalFails(resp.body)
    THEN ReturnedCall(call.op, call.nreq, TRUE, resp, NilResult, Error(resp.body))
    ELSE ReturnedCall(call.op, call.nreq, TRUE, resp, Decoded(resp.body), NilError)

\* afterDo treating a status outside 200..299 as a failure.
afterDoChecksStatus(call, resp) ==
    IF resp.kind = "error"
    THEN ReturnedCall(call.op, call.nreq, FALSE, resp, NilResult, Error(resp.msg))
    ELSE IF resp.status < 200 \/ resp.status > 299
    THEN ReturnedCall(call.op, call.nreq, TRUE, resp, NilResult, Error(resp.body))
    ELSE IF jsonUnmarshalFails(resp.body)
    THEN ReturnedCall(call.op, call.nreq, TRUE, resp, NilResult, Error(resp.body))
    ELSE ReturnedCall(call.op, call.nreq, TRUE, resp, Decoded(resp.body), NilError)

\* doRequest after httpClient.Do gave resp, and the operation's return: every
\* operation passes a non-nil v, returns (nil, err) on an error and (v, nil)
\* otherwise.
afterDo(call, resp) ==
    IF resp.kind = "error"
    THEN ReturnedCall(call.op, call.nreq, FALSE, resp, NilResult, Error(resp.msg))
    ELSE IF jsonUnmarshalFails(resp.body)
    THEN ReturnedCall(call.op, call.nreq, TRUE, resp, NilResult, Error(resp.body))
    ELSE ReturnedCall(call.op, call.nreq, TRUE, resp, Decoded(resp.body), NilError)

\* A goroutine may begin an operation when it is in none.
CanStart(g) == calls[g].pc \in {"idle", "returned"}

ListProjects(g) ==
    /\ CanStart(g)
    /\ doRequest(g, "ListProjects", <<>>, "GET", projectsPath, "", NoData)

SelectProject(g) ==
    /\ CanStart(g)
    /\ \E selector \in Selectors :
        doRequest(g, "SelectProject", <<selector>>, "GET",
                  pathJoin(<<projectsPath, selector>>), "", NoData)

SelectBuilds(g) ==
    /\ CanStart(g)
    /\ \E selector \in Selectors :
        doRequest(g, "SelectBuilds", <<selector>>, "GET",
                  buildsPath \o locatorParamKey \o selector, "", NoData)

BuildFromID(g) ==
    /\ CanStart(g)
    /\ \E id \in BuildIds :
        doRequest(g, "BuildFromID", <<String(ById(Itoa(id)))>>, "GET",
                  pathJoin(<<buildsPath, String(ById(Itoa(id)))>>), "", NoData)

SelectChange(g) ==
    /\ CanStart(g)
    /\ \E selector \in Selectors :
        doRequest(g, "SelectChange", <<selector>>, "GET",
                  pathJoin(<<changesPath, selector>>), "", NoData)

SelectBuildType(g) ==
    /\ CanStart(g)
    /\ \E selector \in Selectors :
        doRequest(g, "SelectBuildType", <<selector>>, "GET",
                  pathJoin(<<buildTypesPath, selector>>), "", NoData)

\* SelectBuildTypes joining the selector into the path, as SelectBuildType does.
SelectBuildTypesInPath(g) ==
    /\ CanStart(g)
    /\ \E selector \in Selectors :
        doRequest(g, "SelectBuildTypes", <<selector>>, "GET",
                  pathJoin(<<buildTypesPath, selector>>), "", NoData)

SelectBuildTypes(g) ==
    /\ CanStart(g)
    /\ \E selector \in Selectors :
        doRequest(g, "SelectBuildTypes", <<selector>>, "GET",
                  buildTypesPath \o locatorParamKey \o selector, "", NoData)

SelectBuildTypeBuilds(g) ==
    /\ CanStart(g)
    /\ \E selector \in Selectors :
        doRequest(g, "SelectBuildTypeBuilds", <<selector>>, "GET",
                  pathJoin(<<buildTypesPath, selector, buildsPath>>), "", NoData)

SelectVcsRoot(g) ==
    /\ CanStart(g)
    /\ \E selector \in Selectors :
        doRequest(g, "SelectVcsRoot", <<selector>>, "GET",
                  pathJoin(<<vcsRootsPath, selector>>), "", NoData)

\* The build posted is the one built from the arguments; of its JSON the model
\* keeps the build type id (the push description does not reach the path).
TriggerBuildID(g) ==
    /\ CanStart(g)
    /\ \E buildTypeId \in {e.id : e \in Entities} :
        doJSONRequest(g, "TriggerBuildID", <<>>, "POST", buildQueuePath,
                      Entity(buildTypeId, ""))

TriggerBuild(g) ==
    /\ CanStart(g)
    /\ \E build \in Entities :
        doJSONRequest(g, "TriggerBuild", <<>>, "POST", buildQueuePath, build)

UpdateParameter(g) ==
    /\ CanStart(g)
    /\ \E projectLocator \in Selectors, property \in Entities :
        doJSONRequest(g, "UpdateParameter", <<projectLocator>>, "PUT",
                      pathJoin(<<projectsPath, projectLocator, parametersPath, property.id>>),
                      property)

UpdateBuildTypeParameter(g) ==
    /\ CanStart(g)
    /\ \E buildTypeLocator \in Selectors, property \in Entities :
        doJSONRequest(g, "UpdateBuildTypeParameter", <<buildTypeLocator>>, "PUT",
                      pathJoin(<<buildTypesPath, buildTypeLocator, parametersPath, property.id>>),
                      property)

CreateProject(g) ==
    /\ CanStart(g)
    /\ \E project \in Entities :
        doJSONRequest(g, "CreateProject", <<>>, "POST", projectsPath, project)

CreateBuildType(g) ==
    /\ CanStart(g)
    /\ \E projectLocator \in Selectors, buildType \in Entities :
        doJSONRequest(g, "CreateBuildType", <<projectLocator>>, "POST",
                      pathJoin(<<projectsPath, projectLocator, buildTypesPath>>), buildType)

SelectSnapshotDependency(g) ==
    /\ CanStart(g)
    /\ \E buildTypeSelector \in Selectors, dependencyId \in DependencyIds :
        doRequest(g, "SelectSnapshotDependency", <<buildTypeSelector, dependencyId>>, "GET",
                  pathJoin(<<buildTypesPath, buildTypeSelector, snapshotDependencyPath,
                             dependencyId>>), "", NoData)

SelectArtifactDependencies(g) ==
    /\ CanStart(g)
    /\ \E buildTypeSelector \in Selectors :
        doRequest(g, "SelectArtifactDependencies", <<buildTypeSelector>>, "GET",
                  pathJoin(<<buildTypesPath, buildTypeSelector, artifactDependencyPath>>),
                  "", NoData)

CreateSnapshotDependency(g) ==
    /\ CanStart(g)
    /\ \E buildTypeSelector \in Selectors, dependency \in Entities :
        doJSONRequest(g, "CreateSnapshotDependency", <<buildTypeSelector>>, "POST",
                      pathJoin(<<buildTypesPath, buildTypeSelector, snapshotDependencyPath>>),
                      Entity(dependency.id, snapshotDependencyType))

CreateArtifactDependency(g) ==
    /\ CanStart(g)
    /\ \E buildTypeSelector \in Selectors, dependency \in Entities :
        doJSONRequest(g, "CreateArtifactDependency", <<buildTypeSelector>>, "POST",
                      pathJoin(<<buildTypesPath, buildTypeSelector, artifactDependencyPath>>),
                      Entity(dependency.id, artifactDependencyType))

CreateTrigger(g) ==
    /\ CanStart(g)
    /\ \E buildTypeSelector \in Selectors, trigger \in Entities :
        doJSONRequest(g, "CreateTrigger", <<buildTypeSelector>>, "POST",
                      pathJoin(<<buildTypesPath, buildTypeSelector, triggerPath>>), trigger)

\* []byte(templateSelector) is never nil, so the request always has a body.
ApplyTemplate(g) ==
    /\ CanStart(g)
    /\ \E buildTypeSelector \in Selectors, templateSelector \in Selectors :
        doRequest(g, "ApplyTemplate", <<buildTypeSelector>>, "PUT",
                  pathJoin(<<buildTypesPath, buildTypeSelector, templatePath>>),
                  "text/plain", Data(templateSelector))

\* GetTagByLocator goes through doJSONRequest with a nil entity.
GetTagByLocator(g) ==
    /\ CanStart(g)
    /\ \E locator \in Selectors :
        doJSONRequest(g, "GetTagByLocator", <<locator>>, "GET",
                      pathJoin(<<buildsPath, locator, tagsPath>>), Nil)

SetTagByLocator(g) ==
    /\ CanStart(g)
    /\ \E locator \in Selectors, tags \in Entities :
        doJSONRequest(g, "SetTagByLocator", <<locator>>, "PUT",
                      pathJoin(<<buildsPath, locator, tagsPath>>), tags)

\* httpClient.Do returns to the goroutine blocked in it, and doRequest and the
\* operation run to their return.
Do(g) ==
    /\ calls[g].pc = "waiting"
    /\ \E resp \in Outcomes : calls' = [calls EXCEPT ![g] = afterDo(calls[g], resp)]
    /\ UNCHANGED <<client, locateVars, helperVars, valueVars>>

\* One goroutine uses the client: each call returns before the next begins.
Init ==
    /\ \E host \in Hosts, username \in Usernames, password \in Passwords :
        client = NewClient(host, username, password)
    /\ calls = [g \in {"g1"} |-> Idle]
    /\ agg = AggIdle
    /\ ValuesIdle
    /\ pool = <<>>
    /\ last = NoCall
    /\ aborted = FALSE

Next ==
    \/ \E g \in DOMAIN calls : ListProjects(g)
    \/ \E g \in DOMAIN calls : SelectProject(g)
    \/ \E g \in DOMAIN calls : SelectBuilds(g)
    \/ \E g \in DOMAIN calls : BuildFromID(g)
    \/ \E g \in DOMAIN calls : SelectChange(g)
    \/ \E g \in DOMAIN calls : SelectBuildType(g)
    \/ \E g \in DOMAIN calls : SelectBuildTypes(g)
    \/ \E g \in DOMAIN calls : SelectBuildTypeBuilds(g)
    \/ \E g \in DOMAIN calls : SelectVcsRoot(g)
    \/ \E g \in DOMAIN calls : TriggerBuildID(g)
    \/ \E g \in DOMAIN calls : TriggerBuild(g)
    \/ \E g \in DOMAIN calls : UpdateParameter(g)
    \/ \E g \in DOMAIN calls : UpdateBuildTypeParameter(g)
    \/ \E g \in DOMAIN calls : CreateProject(g)
    \/ \E g \in DOMAIN calls : CreateBuildType(g)
    \/ \E g \in DOMAIN calls : SelectSnapshotDependency(g)
    \/ \E g \in DOMAIN calls : SelectArtifactDependencies(g)
    \/ \E g \in DOMAIN calls : CreateSnapshotDependency(g)
    \/ \E g \in DOMAIN calls : CreateArtifactDependency(g)
    \/ \E g \in DOMAIN calls : CreateTrigger(g)
    \/ \E g \in DOMAIN calls : ApplyTemplate(g)
    \/ \E g \in DOMAIN calls : GetTagByLocator(g)
    \/ \E g \in DOMAIN calls : SetTagByLocator(g)
    \/ \E g \in DOMAIN calls : Do(g)

Spec == Init /\ [][Next]_vars

(***************************************************************************)
(* Two goroutines share one Client and call into it with no order between  *)
(* them: one operation of each way a request is built (a path segment, a   *)
(* locator query, a formatted id, a JSON body, a body and a path segment). *)
(***************************************************************************)
Goroutines == {"g1", "g2"}

InitConcurrent ==
    /\ \E host \in Hosts, username \in Usernames, password \in Passwords :
        client = NewClient(host, username, password)
    /\ calls = [g \in Goroutines |-> Idle]
    /\ agg = AggIdle
    /\ ValuesIdle
    /\ pool = <<>>
    /\ last = NoCall
    /\ aborted = FALSE

NextConcurrent ==
    \/ \E g \in DOMAIN calls : SelectProject(g)
    \/ \E g \in DOMAIN calls : SelectBuilds(g)
    \/ \E g \in DOMAIN calls : BuildFromID(g)
    \/ \E g \in DOMAIN calls : CreateProject(g)
    \/ \E g \in DOMAIN calls : UpdateParameter(g)
    \/ \E g \in DOMAIN calls : Do(g)

SpecConcurrent == InitConcurrent /\ [][NextConcurrent]_vars

(***************************************************************************)
(* The change-aggregation helper's call, one step per detail fetch.        *)
(***************************************************************************)
\* The helper is called with a list of builds.
AggregateStart ==
    /\ agg.pc = "idle"
    /\ \E builds \in BuildLists :
        agg' = [AggIdle EXCEPT !.pc = "fetching", !.builds = builds]
    /\ UNCHANGED <<locateVars, clientVars, valueVars>>

\* The next build's detail record is fetched and its changes collected.
AggregateFetch ==
    /\ agg.pc = "fetching"
    /\ agg.i <= Len(agg.builds)
    /\ agg' = [agg EXCEPT
            !.fetched = Append(agg.fetched, agg.builds[agg.i]),
            !.byVersion = collectChanges(agg.byVersion, BuildDetails[agg.builds[agg.i]]),
            !.i = agg.i + 1]
    /\ UNCHANGED <<locateVars, clientVars, valueVars>>

\* Every build is fetched: the collected changes are sorted and returned.
AggregateReturn ==
    /\ agg.pc = "fetching"
    /\ agg.i > Len(agg.builds)
    /\ \E out \in sortedByDateDesc(agg.byVersion) :
        agg' = [agg EXCEPT !.pc = "done", !.out = out]
    /\ UNCHANGED <<locateVars, clientVars, valueVars>>

InitChanges ==
    /\ agg = AggIdle
    /\ pool = <<>>
    /\ last = NoCall
    /\ aborted = FALSE
    /\ client = NoClient
    /\ calls = <<>>
    /\ ValuesIdle

NextChanges ==
    \/ AggregateStart
    \/ AggregateFetch
    \/ AggregateReturn

SpecChanges == InitChanges /\ [][NextChanges]_vars

(***************************************************************************)
(* The caller of PropertyFromName: it holds one Params value, on its own   *)
(* or inside a Project, and looks names up in it.                          *)
(***************************************************************************)
\* A lookup of a name in the Params value; the receiver is passed by value
\* and the loop only reads it.
CallParamsPropertyFromName ==
    /\ \E target \in Targets :
        props' = [props EXCEPT !.last =
            [op |-> "Params.PropertyFromName", target |-> target,
             ret |-> ParamsPropertyFromName(props.params, target)]]
    /\ UNCHANGED <<locateVars, clientVars, helperVars, times, trigs>>

\* A lookup of a name in a Project that holds the Params value.
CallProjectPropertyFromName ==
    /\ \E target \in Targets :
        props' = [props EXCEPT !.last =
            [op |-> "Project.PropertyFromName", target |-> target,
             ret |-> ProjectPropertyFromName(Project("p", props.params), target)]]
    /\ UNCHANGED <<locateVars, clientVars, helperVars, times, trigs>>

InitProps ==
    /\ \E properties \in PropertyLists :
        props = [params |-> Params(properties), given |-> Params(properties),
                 last |-> NoLookup]
    /\ pool = <<>>
    /\ last = NoCall
    /\ aborted = FALSE
    /\ client = NoClient
    /\ calls = <<>>
    /\ agg = AggIdle
    /\ times = TimesIdle
    /\ trigs = TrigsIdle

NextProps ==
    \/ CallParamsPropertyFromName
    \/ CallProjectPropertyFromName

SpecProps == InitProps /\ [][NextProps]_vars

(***************************************************************************)
(* A Time value that JSON values are decoded into and that is encoded.     *)
(***************************************************************************)
CallTimeUnmarshalJSON ==
    /\ \E buf \in TimeInputs :
        LET r == TimeUnmarshalJSON(times.t, buf) IN
        times' = [t |-> r.t,
                  from |-> IF r.err.nil THEN buf ELSE times.from,
                  last |-> [op |-> "UnmarshalJSON", buf |-> buf,
                            before |-> times.t, err |-> r.err, out |-> ""]]
    /\ UNCHANGED <<locateVars, clientVars, helperVars, props, trigs>>

CallTimeMarshalJSON ==
    /\ times' = [times EXCEPT !.last =
            [op |-> "MarshalJSON", buf |-> "", before |-> times.t,
             err |-> NilError, out |-> TimeMarshalJSON(times.t)]]
    /\ UNCHANGED <<locateVars, clientVars, helperVars, props, trigs>>

InitTimes ==
    /\ times = TimesIdle
    /\ props = PropsIdle
    /\ pool = <<>>
    /\ last = NoCall
    /\ aborted = FALSE
    /\ client = NoClient
    /\ calls = <<>>
    /\ agg = AggIdle
    /\ trigs = TrigsIdle

NextTimes ==
    \/ CallTimeUnmarshalJSON
    \/ CallTimeMarshalJSON

SpecTimes == InitTimes /\ [][NextTimes]_vars

(***************************************************************************)
(* A Trigger value that is encoded to JSON and that JSON documents, the    *)
(* one it was just encoded to included, are decoded into.                  *)
(***************************************************************************)
CallTriggerMarshalJSON ==
    /\ \E data \in TriggerMarshalJSON(trigs.t) :
        trigs' = [trigs EXCEPT !.last =
            [op |-> "MarshalJSON", data |-> data, before |-> trigs.t,
             roundTrip |-> FALSE, err |-> NilError]]
    /\ UNCHANGED <<locateVars, clientVars, helperVars, props, times>>

\* The document the Trigger was just encoded to is decoded into it.
CallTriggerUnmarshalMarshalled ==
    /\ trigs.last.op = "MarshalJSON"
    /\ LET r == TriggerUnmarshalJSON(trigs.t, trigs.last.data) IN
        trigs' = [t |-> r.t,
                  last |-> [op |-> "UnmarshalJSON", data |-> trigs.last.data,
                            before |-> trigs.t, roundTrip |-> TRUE, err |-> r.err]]
    /\ UNCHANGED <<locateVars, clientVars, helperVars, props, times>>

\* A document from elsewhere is decoded into the Trigger.
CallTriggerUnmarshalJSON ==
    /\ \E data \in GivenDocuments :
        LET r == TriggerUnmarshalJSON(trigs.t, data) IN
        trigs' = [t |-> r.t,
                  last |-> [op |-> "UnmarshalJSON", data |-> data,
                            before |-> trigs.t, roundTrip |-> FALSE, err |-> r.err]]
    /\ UNCHANGED <<locateVars, clientVars, helperVars, props, times>>

InitTrigs ==
    /\ \E t \in Triggers : trigs = [t |-> t, last |-> NoTriggerCall]
    /\ props = PropsIdle
    /\ times = TimesIdle
    /\ pool = <<>>
    /\ last = NoCall
    /\ aborted = FALSE
    /\ client = NoClient
    /\ calls = <<>>
    /\ agg = AggIdle

NextTrigs ==
    \/ CallTriggerMarshalJSON
    \/ CallTriggerUnmarshalMarshalled
    \/ CallTriggerUnmarshalJSON

SpecTrigs == InitTrigs /\ [][NextTrigs]_vars

(***************************************************************************)
(* Claims about package locate, checked under SpecLocate.                  *)
(***************************************************************************)
\* The number of places of string s that hold character c.
CountChar(s, c) == Cardinality({i \in 1..Len(s) : SubSeq(s, i, i) = c})

RECURSIVE SumCommas(_)
SumCommas(ls) ==
    IF ls = <<>> THEN 0 ELSE CountChar(String(Head(ls)), ",") + SumCommas(Tail(ls))

\* l1.String() + "," + ... + "," + ln.String(), for n >= 1.
RECURSIVE Separated(_)
Separated(ls) ==
    IF Len(ls) = 1 THEN String(ls[1])
    ELSE String(Head(ls)) \o "," \o Separated(Tail(ls))

RetLocator == Locator(last.ret.key, last.ret.value)

\* C1 (as stated): BySnapshotDependency called with no inner locator is rejected
\* with an error value or yields a defined empty form "snapshotDependency:()";
\* it never aborts the caller.
C1_EmptyCompositionDoesNotAbort ==
    (last.op = "BySnapshotDependency" /\ last.args = <<>>) =>
        /\ ~last.ret.panicked
        /\ ~aborted
        /\ String(RetLocator) = "snapshotDependency:()"

\* C9: for n >= 1 inner locators, BySnapshotDependency(l1..ln).String() is
\* "snapshotDependency:(" + l1.String() + "," + ... + "," + ln.String() + ")":
\* argument order, exactly n-1 separating commas, none leading or trailing.
C9_SnapshotDependencyJoin ==
    (last.op = "BySnapshotDependency" /\ Len(last.args) >= 1) =>
        LET s == String(RetLocator)
            n == Len(last.args)
        IN  /\ ~last.ret.panicked
            /\ s = "snapshotDependency:(" \o Separated(last.args) \o ")"
            /\ CountChar(s, ",") = SumCommas(last.args) + (n - 1)
            /\ SubSeq(s, Len(s) - 1, Len(s)) # ",)"
            /\ SubSeq(s, 1, Len("snapshotDependency:(,")) # "snapshotDependency:(,"
            /\ (last.args = <<ById("1")>> => s = "snapshotDependency:(id:1)")
            /\ (last.args = <<ById("1"), ByName("bt")>>
                    => s = "snapshotDependency:(id:1,name:bt)")

\* C9 witness: a two-argument composition has returned.
C9_Witness ==
    /\ last.op = "BySnapshotDependency"
    /\ last.args = <<ById("1"), ByName("bt")>>
    /\ String(RetLocator) = "snapshotDependency:(id:1,name:bt)"

NestingKey ==
    [ByBuildType |-> "buildType", ByProject |-> "project",
     ByAffectedProject |-> "affectedProject", ByTo |-> "to"]

\* C10: each nesting constructor returns key + ":(" + inner.String() + ")" at any
\* depth of nesting, and the inner locator the caller holds is unchanged.
C10_NestingConstructors ==
    (last.op \in DOMAIN NestingKey) =>
        /\ ~last.ret.panicked
        /\ Len(last.args) = 1
        /\ String(RetLocator) = NestingKey[last.op] \o ":(" \o String(last.args[1]) \o ")"
        /\ pool[last.idx[1]] = last.args[1]
        /\ pool[Len(pool)] = RetLocator
        /\ (last.args[1] = ByBuildType(ById("1")) /\ last.op = "ByTo"
                => String(RetLocator) = "to:(buildType:(id:1))")

\* C10 witness: a nesting constructor applied to an already nested locator.
C10_Witness ==
    /\ last.op = "ByTo"
    /\ last.args = <<ByBuildType(ById("1"))>>
    /\ String(RetLocator) = "to:(buildType:(id:1))"
    /\ pool = <<ById("1"), ByBuildType(ById("1")), ByTo(ByBuildType(ById("1")))>>

SimpleKey ==
    [ById |-> "id", ByName |-> "name", ByVersion |-> "version",
     ByIncludeInitial |-> "includeInitial"]

\* C11: for a value without special characters each simple constructor returns
\* a locator whose String() is key + ":" + value under its fixed key (id, name,
\* version, includeInitial), a boolean written true or false.
C11_SimpleConstructors ==
    (last.op \in DOMAIN SimpleKey) =>
        LET value == IF last.op = "ByIncludeInitial"
                     THEN (IF last.args[1] THEN "true" ELSE "false")
                     ELSE last.args[1]
        IN  /\ ~last.ret.panicked
            /\ Len(last.args) = 1
            /\ String(RetLocator) = SimpleKey[last.op] \o ":" \o value
            /\ CountChar(String(RetLocator), ":") = 1
            /\ (last.op = "ByVersion" /\ last.args = <<"bt">>
                    => String(RetLocator) = "version:bt")
            /\ (last.op = "ByIncludeInitial" /\ last.args = <<FALSE>>
                    => String(RetLocator) = "includeInitial:false")

\* C11 witness: ByIncludeInitial(true) returned after a ByVersion call.
C11_Witness ==
    /\ last.op = "ByIncludeInitial"
    /\ last.args = <<TRUE>>
    /\ String(RetLocator) = "includeInitial:true"
    /\ pool = <<ByVersion("bt"), ByIncludeInitial(TRUE)>>

(***************************************************************************)
(* Claims about the property lookup, checked under SpecProps.              *)
(***************************************************************************)
\* The places of the list that hold a property named target.
Matches(properties, target) ==
    {i \in 1..Len(properties) : properties[i].Name = target}

\* C12: PropertyFromName, on Params and on Project alike, returns the property
\* at the least place of the list whose Name equals the target, the empty
\* Property when no place matches (an empty list included), and leaves the
\* list as the caller built it.
C12_PropertyFromName ==
    (props.last.op # "none") =>
        LET properties == props.given.Properties
            hits == Matches(properties, props.last.target)
        IN  /\ props.params = props.given
            /\ (hits = {} => props.last.ret = EmptyProperty)
            /\ (hits # {} =>
                    \E i \in hits :
                        /\ \A j \in hits : i <= j
                        /\ props.last.ret = properties[i])

\* A Project lookup of a name two properties carry returned the first of them.
C12_Witness ==
    /\ props.last.op = "Project.PropertyFromName"
    /\ props.last.target = "a"
    /\ props.given.Properties = <<Property("a", "1", FALSE), Property("a", "bt", FALSE)>>
    /\ props.last.ret = Property("a", "1", FALSE)

(***************************************************************************)
(* Claims about Time, checked under SpecTimes.                             *)
(***************************************************************************)
\* buf is a quoted literal YYYYMMDDThhmmss+hhmm or YYYYMMDDThhmmss-hhmm.
HasDateShape(buf) ==
    /\ Len(buf) = 22
    /\ SubSeq(buf, 1, 1) = "\"" /\ SubSeq(buf, 22, 22) = "\""
    /\ \A i \in (2..9) \cup (11..16) \cup (18..21) : isDigit(buf, i)
    /\ SubSeq(buf, 10, 10) = "T"
    /\ SubSeq(buf, 17, 17) \in {"+", "-"}

\* buf has the shape and its fields name a date of the calendar, a time of
\* the day and a zone.
IsDateLiteral(buf) ==
    /\ HasDateShape(buf)
    /\ LET field(i) == digitsValue(SubSeq(buf, i, i + 1)) IN
        /\ field(6) \in 1..12
        /\ field(8) \in 1..daysIn(field(6), digitsValue(SubSeq(buf, 2, 5)))
        /\ field(11) < 24 /\ field(13) < 60 /\ field(15) < 60
        /\ field(18) < 24 /\ field(20) < 60

\* C13: a Time decoded from a literal YYYYMMDDThhmmss+-hhmm is encoded as that
\* same quoted literal; decoding such a literal succeeds; and decoding an input
\* of any other shape returns an error and leaves the Time as it was.
C13_DateRoundTrip ==
    /\ (times.last.op = "MarshalJSON" /\ IsDateLiteral(times.from) =>
            times.last.out = times.from)
    /\ (times.last.op = "UnmarshalJSON" /\ IsDateLiteral(times.last.buf) =>
            times.last.err.nil)
    /\ (times.last.op = "UnmarshalJSON" /\ ~IsDateLiteral(times.last.buf) =>
            ~times.last.err.nil /\ times.t = times.last.before)

(***************************************************************************)
(* Claims about Trigger, checked under SpecTrigs.                          *)
(***************************************************************************)
\* The last call encoded a Trigger, or decoded the document it was encoded to.
Marshalled == trigs.last.op = "MarshalJSON"
RoundTripped == trigs.last.op = "UnmarshalJSON" /\ trigs.last.roundTrip

\* The encoded form has type "buildDependencyTrigger" and a property list of
\* two properties with count 2.
TypeAndCount ==
    Marshalled =>
        /\ trigs.last.data.type = Member(<<34>> \o triggerType \o <<34>>)
        /\ trigs.last.data.properties.present /\ ~trigs.last.data.properties.null
        /\ trigs.last.data.properties.count = 2
        /\ Len(trigs.last.data.properties.property) = 2

\* Decoding a document with no properties object, or with null for it, does not
\* fail and gives DependsOn "" and AfterSuccessfulBuildOnly false.
NoPropertiesDecodes ==
    (/\ trigs.last.op = "UnmarshalJSON"
     /\ trigs.last.data.valid
     /\ ~trigs.last.data.properties.present \/ trigs.last.data.properties.null) =>
        /\ trigs.last.err.nil
        /\ trigs.t.DependsOn = <<>>
        /\ ~trigs.t.AfterSuccessfulBuildOnly

\* C15 (as stated): for every Trigger, decoding what it was encoded to gives a
\* Trigger equal to it; the encoded form has the type and a count of 2; and a
\* document with no properties object decodes without failing.
C15_TriggerRoundTrip ==
    /\ (RoundTripped => trigs.last.err.nil /\ trigs.t = trigs.last.before)
    /\ TypeAndCount
    /\ NoPropertiesDecodes

\* C15 (amended): the same for every Trigger whose Id and DependsOn are valid
\* UTF-8; for any Trigger the decoding succeeds and AfterSuccessfulBuildOnly
\* comes back.
C15_TriggerRoundTripValidUTF8 ==
    /\ (RoundTripped =>
            /\ trigs.last.err.nil
            /\ trigs.t.AfterSuccessfulBuildOnly = trigs.last.before.AfterSuccessfulBuildOnly
            /\ (ValidString(trigs.last.before.Id) => trigs.t.Id = trigs.last.before.Id)
            /\ (ValidString(trigs.last.before.DependsOn) =>
                    trigs.t.DependsOn = trigs.last.before.DependsOn))
    /\ TypeAndCount
    /\ NoPropertiesDecodes

\* C15 witness: a Trigger whose strings need escaping came back from the
\* document that lists afterSuccessfulBuildOnly first.
C15_Witness ==
    /\ RoundTripped
    /\ trigs.last.before = Trigger(<<34>>, <<60, 195, 169>>, TRUE)
    /\ trigs.t = trigs.last.before
    /\ trigs.last.data.id = Member(<<34, 92, 34, 34>>)
    /\ decodeString(trigs.last.data.properties.property[1].name.lit)
            = toBytes("afterSuccessfulBuildOnly")

(***************************************************************************)
(* Claims about the client, checked under Spec.                            *)
(***************************************************************************)
InFlight(g) == calls[g].pc = "waiting"
HasReturned(g) == calls[g].pc = "returned"

\* The part of a URL before its first "?", and the part after it.
queryAt(url) ==
    LET qs == {i \in 1..Len(url) : SubSeq(url, i, i) = "?"} IN
    IF qs = {} THEN 0 ELSE CHOOSE i \in qs : \A j \in qs : i <= j
pathPart(url) == IF queryAt(url) = 0 THEN url ELSE SubSeq(url, 1, queryAt(url) - 1)
queryPart(url) == IF queryAt(url) = 0 THEN "" ELSE SubSeq(url, queryAt(url) + 1, Len(url))

\* sel is the path segment that follows the segment resource.
SegmentAfter(url, resource, sel) ==
    LET segs == Split(pathPart(url)) IN
    \E k \in 1..(Len(segs) - 1) : segs[k] = resource /\ segs[k + 1] = sel

\* sel is the value of the locator query parameter, and no path segment.
InLocatorParam(url, sel) ==
    /\ queryPart(url) = "locator=" \o sel
    /\ \A k \in DOMAIN Split(pathPart(url)) : Split(pathPart(url))[k] # sel

\* A selector that is one path segment: a locator with no "/" and no "?", not
\* "." or "..".
IsSegment(sel) ==
    sel # "" /\ sel # "." /\ sel # ".." /\ ~Contains(sel, "/") /\ ~Contains(sel, "?")

\* The resource each selector-taking operation addresses.
ResourceOf ==
    [SelectProject |-> projectsPath, BuildFromID |-> buildsPath,
     SelectChange |-> changesPath, SelectBuildType |-> buildTypesPath,
     SelectVcsRoot |-> vcsRootsPath, SelectSnapshotDependency |-> buildTypesPath,
     SelectBuilds |-> buildsPath, SelectBuildTypes |-> buildTypesPath,
     SelectBuildTypeBuilds |-> buildTypesPath,
     SelectArtifactDependencies |-> buildTypesPath, GetTagByLocator |-> buildsPath,
     UpdateParameter |-> projectsPath, UpdateBuildTypeParameter |-> buildTypesPath,
     CreateBuildType |-> projectsPath, CreateSnapshotDependency |-> buildTypesPath,
     CreateArtifactDependency |-> buildTypesPath, CreateTrigger |-> buildTypesPath,
     ApplyTemplate |-> buildTypesPath, SetTagByLocator |-> buildsPath]

SingleEntityFetches ==
    {"SelectProject", "BuildFromID", "SelectChange", "SelectBuildType", "SelectVcsRoot",
     "SelectSnapshotDependency"}
CollectionFetches ==
    {"SelectBuilds", "SelectBuildTypes", "SelectBuildTypeBuilds",
     "SelectArtifactDependencies", "GetTagByLocator"}
QueryLocatorOps == {"SelectBuilds", "SelectBuildTypes"}

\* C2 (as stated): every single-entity fetch puts the selector in the URL path
\* and every collection fetch (Builds, BuildTypes, ArtifactDependencies, Tags)
\* puts it in the ?locator= query parameter.
C2_PlacementByCategory ==
    \A g \in DOMAIN calls :
        (InFlight(g) /\ calls[g].op \in SingleEntityFetches \cup CollectionFetches
                     /\ IsSegment(calls[g].args[1])) =>
            LET c == calls[g] IN
            /\ c.op \in SingleEntityFetches =>
                    SegmentAfter(c.req.url, ResourceOf[c.op], c.args[1])
                    /\ queryAt(c.req.url) = 0
            /\ c.op \in CollectionFetches => InLocatorParam(c.req.url, c.args[1])

\* C2 (amended): only SelectBuilds and SelectBuildTypes put the selector in the
\* ?locator= query parameter of their resource; every other operation that takes
\* a selector, the collection fetches SelectBuildTypeBuilds,
\* SelectArtifactDependencies and GetTagByLocator included, joins it into the URL
\* path as the segment after the resource and sends no query.
C2_PlacementByOperation ==
    \A g \in DOMAIN calls :
        (InFlight(g) /\ calls[g].op \in DOMAIN ResourceOf /\ IsSegment(calls[g].args[1])) =>
            LET c == calls[g] IN
            IF c.op \in QueryLocatorOps
            THEN /\ InLocatorParam(c.req.url, c.args[1])
                 /\ c.req.url = client.host \o basePathSuffix \o ResourceOf[c.op]
                                    \o "?locator=" \o c.args[1]
            ELSE /\ SegmentAfter(c.req.url, ResourceOf[c.op], c.args[1])
                 /\ queryAt(c.req.url) = 0

\* C2 witness: a collection fetch whose selector travels in the path.
C2_Witness ==
    \E g \in DOMAIN calls :
        /\ InFlight(g)
        /\ calls[g].op = "SelectBuildTypeBuilds"
        /\ calls[g].args = <<"id:1">>
        /\ calls[g].req.url = "http://tc/httpAuth/app/rest/buildTypes/id:1/builds"

\* C3 (as stated): a request carries a body only for POST/PUT; every GET,
\* GetTagByLocator included, is sent with no body and no Content-Type header.
C3_BodyOnlyForCreateUpdate ==
    \A g \in DOMAIN calls :
        InFlight(g) =>
            LET r == calls[g].req IN
            /\ r.body.present => r.method \in {"POST", "PUT"}
            /\ r.method = "GET" => ~r.body.present /\ "Content-Type" \notin DOMAIN r.header

\* C4: when the round trip succeeds and the body does not decode, the operation
\* returns a nil result and an error whose message is the body text verbatim
\* (the empty string for an empty body).
C4_DecodeFailureSurfacesBody ==
    \A g \in DOMAIN calls :
        (HasReturned(g) /\ calls[g].resp.kind = "response") =>
            LET c == calls[g] IN
            /\ c.resp.body \in {"", "[]", "Not Found"} =>
                    c.result.nil /\ ~c.err.nil /\ c.err.msg = c.resp.body
            /\ c.resp.body = "{}" => ~c.result.nil /\ c.err.nil
            /\ c.err.nil = ~c.result.nil
            /\ ~c.err.nil => c.err.msg = c.resp.body

\* C4 witness: an empty body came back and the error's message is empty.
C4_Witness ==
    \E g \in DOMAIN calls :
        /\ HasReturned(g)
        /\ calls[g].resp = Response(200, "")
        /\ calls[g].result.nil
        /\ calls[g].err = Error("")

\* C5 (as stated): every call issues exactly one HTTP request, whatever the
\* outcome.
C5_ExactlyOneRequest ==
    \A g \in DOMAIN calls : HasReturned(g) => calls[g].nreq = 1

\* C5 (amended): a call never issues more than one request (no retry, no second
\* POST): exactly one once the request is built, whatever the transport or the
\* decoding does, and none when building the request fails; the call returns
\* before any further request is made.
C5_AtMostOneRequestNoRetry ==
    \A g \in DOMAIN calls :
        LET c == calls[g] IN
        /\ c.nreq <= 1
        /\ InFlight(g) => c.nreq = 1
        /\ HasReturned(g) => (c.nreq = 1) = (c.resp.kind # "none")
        /\ (HasReturned(g) /\ c.nreq = 0) => urlParseFails(client.host \o basePathSuffix)

\* C5 witness: a POST to buildQueue failed in the transport and the call
\* returned after its single request.
C5_Witness ==
    \E g \in DOMAIN calls :
        /\ HasReturned(g)
        /\ calls[g].op = "TriggerBuild"
        /\ calls[g].resp.kind = "error"
        /\ calls[g].nreq = 1

\* C6: when request construction or the transport fails, the operation returns
\* that failure as a non-nil error with a nil result, and no response body is
\* read or decoded.
C6_TransportFailurePropagates ==
    \A g \in DOMAIN calls :
        (HasReturned(g) /\ calls[g].resp.kind \in {"none", "error"}) =>
            LET c == calls[g] IN
            /\ ~c.err.nil
            /\ c.result.nil
            /\ ~c.read
            /\ c.resp.kind = "error" => c.err.msg = c.resp.msg /\ c.err.msg \in TransportErrors
            /\ c.resp.kind = "none" => c.nreq = 0 /\ Contains(c.err.msg, "parse ")

\* C6 witness: ListProjects returned the transport's error.
C6_Witness ==
    \E g \in DOMAIN calls :
        /\ HasReturned(g)
        /\ calls[g].op = "ListProjects"
        /\ calls[g].resp = TransportError("dial tcp: connection refused")
        /\ calls[g].err = Error("dial tcp: connection refused")
        /\ calls[g].result.nil

\* base64 of "username:password" for the credentials of the model.
KnownBasicAuth(username, password) ==
    CASE username = "a" /\ password = "b" -> "Basic YTpi"
      [] username = "a" /\ password = "cd" -> "Basic YTpjZA=="
      [] username = "ab" /\ password = "b" -> "Basic YWI6Yg=="
      [] username = "ab" /\ password = "cd" -> "Basic YWI6Y2Q="

\* C7: every request sent carries Authorization: "Basic " +
\* base64(username ":" password) of the client's configuration, computed for
\* that request; the client holds no token or session.
C7_BasicAuthOnEveryRequest ==
    \A g \in DOMAIN calls :
        InFlight(g) =>
            /\ "Authorization" \in DOMAIN calls[g].req.header
            /\ calls[g].req.header["Authorization"]
                    = KnownBasicAuth(client.username, client.password)
            /\ DOMAIN client = {"httpClient", "host", "username", "password"}

\* C7 witness: a request of a client with a two-byte last group is in flight.
C7_Witness ==
    \E g \in DOMAIN calls :
        /\ InFlight(g)
        /\ client.username = "ab" /\ client.password = "cd"
        /\ calls[g].req.header["Authorization"] = "Basic YWI6Y2Q="

\* C16: what an operation returns is decided by the transport's failure and
\* by the body alone, whatever the status: a transport error gives a nil result
\* and an error; a body that is a JSON object gives the decoded result and a nil
\* error, for 404 as for 200; any other body of the model gives a nil result
\* and an error, for 200 as for 404.
C16_StatusCodeIgnored ==
    \A g \in DOMAIN calls :
        (HasReturned(g) /\ calls[g].nreq > 0) =>
            LET c == calls[g] IN
            /\ c.resp.kind = "error" => c.result.nil /\ ~c.err.nil
            /\ (c.resp.kind = "response" /\ c.resp.body = "{}") =>
                    /\ c.err.nil
                    /\ ~c.result.nil /\ c.result.from = "{}"
            /\ (c.resp.kind = "response" /\ c.resp.body \in {"", "[]", "Not Found"}) =>
                    c.result.nil /\ ~c.err.nil

\* C16 witness: a 404 whose body is a JSON object came back as a result with a
\* nil error.
C16_Witness ==
    \E g \in DOMAIN calls :
        /\ HasReturned(g)
        /\ calls[g].op = "SelectProject"
        /\ calls[g].resp = Response(404, "{}")
        /\ calls[g].err = NilError
        /\ calls[g].result = Decoded("{}")

(***************************************************************************)
(* Claims about calls that share a Client, checked under SpecConcurrent.   *)
(***************************************************************************)
\* s begins with prefix.
HasPrefix(s, prefix) ==
    Len(s) >= Len(prefix) /\ SubSeq(s, 1, Len(prefix)) = prefix

\* Goroutine g hands a request to the transport in this step.
Sends(g) == calls[g].pc # "waiting" /\ calls'[g].pc = "waiting"

\* C14: no step of any operation, whatever the other goroutine is doing,
\* changes the Client (host, username, password, httpClient); the request a
\* call sends has the client's host and base path at the head of its URL and
\* the Authorization of the client's credentials, it equals the request of a
\* concurrent call of the same operation and arguments, and the step leaves
\* the other goroutine's call as it was.
C14_ClientUnchangedByCalls ==
    [][ /\ client' = client
        /\ \A g \in DOMAIN calls :
            Sends(g) =>
                /\ HasPrefix(calls'[g].req.url, client.host \o basePathSuffix)
                /\ calls'[g].req.header["Authorization"]
                        = KnownBasicAuth(client.username, client.password)
                /\ \A h \in DOMAIN calls \ {g} :
                    /\ calls'[h] = calls[h]
                    /\ (InFlight(h) /\ calls[h].op = calls'[g].op
                            /\ calls[h].args = calls'[g].args) =>
                        calls'[g].req = calls[h].req
      ]_vars

\* C14 witness: both goroutines are in the same operation with the same
\* argument at once, after one of them completed an earlier call.
C14_Witness ==
    /\ InFlight("g1") /\ InFlight("g2")
    /\ calls["g1"].op = "SelectBuilds" /\ calls["g1"].args = <<"id:1">>
    /\ calls["g2"].op = "SelectBuilds" /\ calls["g2"].args = <<"id:1">>
    /\ calls["g1"].req.url = "http://tc/httpAuth/app/rest/builds?locator=id:1"
    /\ calls["g2"].req = calls["g1"].req
    /\ client = NewClient("http://tc", "ab", "cd")

(***************************************************************************)
(* Claims about the change-aggregation helper, checked under SpecChanges.  *)
(***************************************************************************)
\* The changes of the builds of a list, in the order they are met.
RECURSIVE flatten(_)
flatten(builds) ==
    IF builds = <<>> THEN <<>>
    ELSE BuildDetails[Head(builds)] \o flatten(Tail(builds))

\* C8: the helper fetches each build's detail record once, in order, keeps one
\* change per distinct version (the one met last wins) and returns them by
\* date, latest first; builds B1{v1@t1, v2@t2}, B2{v2@t3, v3@t4} give
\* [v3@t4, v2@t3, v1@t1].
C8_ChangeAggregation ==
    agg.pc = "done" =>
        LET all == flatten(agg.builds)
            out == agg.out
        IN  /\ agg.fetched = agg.builds
            /\ {out[k].version : k \in DOMAIN out} = {all[k].version : k \in DOMAIN all}
            /\ \A j, k \in DOMAIN out : j # k => out[j].version # out[k].version
            /\ \A k \in DOMAIN out :
                \E p \in DOMAIN all :
                    /\ all[p] = out[k]
                    /\ \A q \in DOMAIN all : q > p => all[q].version # out[k].version
            /\ \A j, k \in DOMAIN out : j < k => out[j].date >= out[k].date
            /\ agg.builds = <<1, 2>> =>
                    out = <<Change("v3", 4), Change("v2", 3), Change("v1", 1)>>

\* C8 witness: the helper returned for the two builds of the example.
C8_Witness ==
    /\ agg.pc = "done"
    /\ agg.builds = <<1, 2>>
    /\ agg.fetched = <<1, 2>>
    /\ agg.out = <<Change("v3", 4), Change("v2", 3), Change("v1", 1)>>

====
